---- MODULE Spec2Model ----
(***************************************************************************)
(* A model of wgmesh (src/wgmesh.go): the WgMesh object, its status        *)
(* tracker, the WireGuard device it configures, and the goroutines it      *)
(* starts (file watcher, peer monitor).                                    *)
(*                                                                         *)
(* Strings of the program that are built by concatenation (error           *)
(* messages) are tuples of their parts; the empty string is <<>>.          *)
(* Timestamps (LastSeen, LastUpdate) are not part of the model.            *)
(***************************************************************************)
EXTENDS Integers, Sequences, FiniteSets, TLC

(***************************************************************************)
(* Bounds of the model.                                                    *)
(***************************************************************************)
\* number of distinct peer names a config file may declare
NumPeers == 2
\* number of fsnotify events the change notifier delivers in one run
MaxEvents == 1
\* number of StartTunnel executions (Start, StartTunnel, RestartTunnel) in one run
MaxTunnelStarts == 2
\* number of status snapshots (GetStatus) a client takes in one run
MaxSnapshots == 1
\* number of fsnotify events delivered in a run of the hot-reload driver alone
MaxReloadEvents == 2

(***************************************************************************)
(* Peer Model & Config (src/wgmesh.go:28-44).                              *)
(***************************************************************************)
AllNames == <<"peer1", "peer2", "peer3", "peer4">>
Names == {AllNames[i] : i \in 1..NumPeers}

\* the base64 public key a peer name uses when its key is well formed
KeyOf(name) == <<"key-", name>>
MalformedKey == <<"not-a-key">>
\* the key of a peer left on the device by an earlier run, declared by no config
StaleKey == <<"key-", "stale">>
ValidKeys == {KeyOf(n) : n \in Names} \cup {<<"local-private-key">>, StaleKey}

\* wgtypes.ParseKey: succeeds exactly on well-formed 32-byte base64 keys
ParseKeyOK(key) == key \in ValidKeys

ValidCIDRs == {"10.0.0.0/24", "10.0.1.0/24"}
\* net.ParseCIDR
ParseCIDROK(ip) == ip \in ValidCIDRs

ResolvableHosts == {"198.51.100.7"}
\* net.ResolveUDPAddr on "<endpoint>:<port>"
ResolveUDPAddrOK(endpoint) == endpoint \in ResolvableHosts

Peer(name, key, allowed) ==
    [Name |-> name, IP |-> "", PrivateKey |-> "", PublicKey |-> key,
     AllowedIPs |-> allowed, Endpoint |-> "", Port |-> 0, NAT |-> FALSE]

\* the declarations of one peer that config files of the model contain
PeerVariants(name) ==
    {Peer(name, k, a) : k \in {KeyOf(name), MalformedKey},
                        a \in {<<"10.0.0.0/24">>, <<"10.0.1.0/24">>}}

RECURSIVE PeerLists(_)
\* all peer lists with unique names, of the names in S, in every order
PeerLists(S) ==
    {<<>>} \cup UNION {{<<p>> \o rest : p \in PeerVariants(n), rest \in PeerLists(S \ {n})}
                        : n \in S}

MakeConfig(privateKey, peers) ==
    [NetworkName |-> "wg0", ListenPort |-> 51820, PrivateKey |-> privateKey, Peers |-> peers]

PrivateKeys == {<<"local-private-key">>, MalformedKey}

\* the config files of the model
Configs == {MakeConfig(k, ps) : k \in PrivateKeys, ps \in PeerLists(Names)}

\* the config files that declare at most one peer
IsPlain(cfg) ==
    /\ Len(cfg.Peers) <= 1
    /\ \A i \in DOMAIN cfg.Peers :
          /\ cfg.Peers[i].AllowedIPs = <<"10.0.0.0/24">>
          /\ \A j \in DOMAIN cfg.Peers :
                i < j => \E a, b \in DOMAIN AllNames :
                           a < b /\ AllNames[a] = cfg.Peers[i].Name
                                 /\ AllNames[b] = cfg.Peers[j].Name
PlainConfigs == {cfg \in Configs : IsPlain(cfg)}

(***************************************************************************)
(* The environment of a run: who drives the WgMesh object and which        *)
(* contents the config file takes.  The daemon is cmd/wgmesh/wgmesh.go: it *)
(* calls Start once, exits when Start fails and never calls Close.  A      *)
(* library client owns the mesh and calls Start, StartTunnel,              *)
(* RestartTunnel and Close; a status reader calls Start and GetStatus.     *)
(* In the environment "reloader" the mesh is started once and the config   *)
(* file is then rewritten repeatedly (specification SpecReload).           *)
(***************************************************************************)
Environments == {"daemon", "library", "reader"}

\* the contents the config file may have when the mesh is constructed
InitialFiles(e) == IF e = "daemon" THEN Configs ELSE PlainConfigs

\* the contents the config file takes when it is rewritten
Files(e) == {c \in InitialFiles(e) : ParseKeyOK(c.PrivateKey)}

\* the peers an earlier run may have left on the device
InitialDevices(e) ==
    IF e = "reader" THEN {[k \in {} |-> <<>>], [k \in {StaleKey} |-> <<"10.0.0.0/24">>]}
    ELSE {[k \in {} |-> <<>>]}

NoError == <<>>

(***************************************************************************)
(* createPeerConfig (src/wgmesh.go:487-516).                               *)
(***************************************************************************)
\* the PersistentKeepaliveInterval, in seconds, of a wgtypes.PeerConfig whose
\* pointer of that name is nil
NoKeepalive == 0

\* wgtypes.PeerConfig{}
ZeroPeerConfig ==
    [PublicKey |-> <<>>, Endpoint |-> "", AllowedIPs |-> <<>>, ReplaceAllowedIPs |-> FALSE,
     PersistentKeepaliveInterval |-> NoKeepalive]

createPeerConfig(peer) ==
    IF ~ParseKeyOK(peer.PublicKey)
    THEN [err |-> <<"invalid public key for peer ", peer.Name>>, cfg |-> ZeroPeerConfig]
    ELSE IF peer.Endpoint # "" /\ ~ResolveUDPAddrOK(peer.Endpoint)
    THEN [err |-> <<"invalid endpoint for peer ", peer.Name>>, cfg |-> ZeroPeerConfig]
    ELSE IF \E i \in DOMAIN peer.AllowedIPs : ~ParseCIDROK(peer.AllowedIPs[i])
    THEN [err |-> <<"invalid allowed IP for peer ", peer.Name>>, cfg |-> ZeroPeerConfig]
    ELSE [err |-> NoError,
          cfg |-> [PublicKey |-> peer.PublicKey,
                   Endpoint |-> peer.Endpoint,
                   AllowedIPs |-> peer.AllowedIPs,
                   ReplaceAllowedIPs |-> TRUE,
                   PersistentKeepaliveInterval |-> NoKeepalive]]

(***************************************************************************)
(* Status tracker (src/wgmesh.go:46-76, 132-167).                          *)
(***************************************************************************)
PeerStateUp == "up"
PeerStateDown == "down"
PeerStateError == "error"
MeshStateUp == "up"
MeshStateDown == "down"
MeshStatePartial == "partial"

\* the zero value of PeerStatus, which a read of an absent map key yields
ZeroPeerStatus ==
    [Name |-> "", State |-> "", Error |-> NoError, BytesSent |-> 0, BytesRecv |-> 0]

PeerStatusOf(peers, name) == IF name \in DOMAIN peers THEN peers[name] ELSE ZeroPeerStatus

\* Go's m[k] = v on a map
MapSet(m, k, v) == [x \in DOMAIN m \cup {k} |-> IF x = k THEN v ELSE m[x]]

\* mutant: the mesh is Up as soon as one peer is Up
meshStatusOf_anyUp(peers) ==
    LET allUp == \E n \in DOMAIN peers : peers[n].State = "up"
        allDown == \A n \in DOMAIN peers : peers[n].State = "down"
    IN  IF allUp THEN MeshStateUp ELSE IF allDown THEN MeshStateDown ELSE MeshStatePartial

\* the loop of lines 147-165 over the peer map
meshStatusOf(peers) ==
    LET allUp == \A n \in DOMAIN peers : peers[n].State = "up"
        allDown == \A n \in DOMAIN peers : peers[n].State = "down"
    IN  IF allUp THEN MeshStateUp ELSE IF allDown THEN MeshStateDown ELSE MeshStatePartial

\* the MeshStatus after updatePeerState(name, state, err) on MeshStatus st
updatePeerState(st, name, state, err) ==
    LET peerStatus == [PeerStatusOf(st.Peers, name) EXCEPT
                            !.Name = name, !.State = state, !.Error = err]
        peers == MapSet(st.Peers, name, peerStatus)
    IN  [st EXCEPT !.Peers = peers, !.Status = meshStatusOf(peers)]

\* mutant: the error is logged and the tracker is not told
handlePeerError_logOnly(st, peer, err) == st

\* handlePeerError(peer, err)
handlePeerError(st, peer, err) == updatePeerState(st, peer.Name, PeerStateError, err)

(***************************************************************************)
(* diffMesh (src/wgmesh.go:365-402).  The result slices are filled while   *)
(* ranging over maps, so their order is not fixed: they are sets here and  *)
(* the loops over them pick the elements in any order.                     *)
(***************************************************************************)
\* the map built by "for _, peer := range peers { m[peer.Name] = peer }"
PeerMap(peers) ==
    [n \in {peers[i].Name : i \in DOMAIN peers} |->
        peers[CHOOSE i \in DOMAIN peers :
                /\ peers[i].Name = n
                /\ \A j \in DOMAIN peers : j > i => peers[j].Name # n]]

\* mutant: two declarations of a name differ only when their keys differ
diffMesh_keyOnly(oldPeers, newPeers) ==
    LET oldPeerMap == PeerMap(oldPeers)
        newPeerMap == PeerMap(newPeers)
    IN  [added   |-> {newPeerMap[n] : n \in DOMAIN newPeerMap \ DOMAIN oldPeerMap},
         removed |-> {oldPeerMap[n] : n \in DOMAIN oldPeerMap \ DOMAIN newPeerMap},
         updated |-> {newPeerMap[n] : n \in {m \in DOMAIN oldPeerMap \cap DOMAIN newPeerMap :
                                  oldPeerMap[m].PublicKey # newPeerMap[m].PublicKey}}]

\* mutant: every name both lists declare is reported as updated
diffMesh_noDeepEqual(oldPeers, newPeers) ==
    LET oldPeerMap == PeerMap(oldPeers)
        newPeerMap == PeerMap(newPeers)
    IN  [added   |-> {newPeerMap[n] : n \in DOMAIN newPeerMap \ DOMAIN oldPeerMap},
         removed |-> {oldPeerMap[n] : n \in DOMAIN oldPeerMap \ DOMAIN newPeerMap},
         updated |-> {newPeerMap[n] : n \in DOMAIN oldPeerMap \cap DOMAIN newPeerMap}]

diffMesh(oldPeers, newPeers) ==
    LET oldPeerMap == PeerMap(oldPeers)
        newPeerMap == PeerMap(newPeers)
    IN  [added   |-> {newPeerMap[n] : n \in DOMAIN newPeerMap \ DOMAIN oldPeerMap},
         removed |-> {oldPeerMap[n] : n \in DOMAIN oldPeerMap \ DOMAIN newPeerMap},
         updated |-> {newPeerMap[n] : n \in {m \in DOMAIN oldPeerMap \cap DOMAIN newPeerMap :
                                                   oldPeerMap[m] # newPeerMap[m]}}]

(***************************************************************************)
(* The WireGuard device behind WireGuardClient (src/wgmesh.go:22-26): a    *)
(* map from public key to the allowed IPs of that peer.  ConfigureDevice   *)
(* clears the peer list first when ReplacePeers is set, then adds or       *)
(* updates the peers of the request.                                       *)
(***************************************************************************)
EmptyDevice == [k \in {} |-> <<>>]

RECURSIVE ApplyPeers(_, _)
ApplyPeers(dev, peerConfigs) ==
    IF peerConfigs = <<>> THEN dev
    ELSE ApplyPeers(MapSet(dev, Head(peerConfigs).PublicKey, Head(peerConfigs).AllowedIPs),
                    Tail(peerConfigs))

ConfigureDevice(dev, cfg) ==
    ApplyPeers(IF cfg.ReplacePeers THEN EmptyDevice ELSE dev, cfg.Peers)

\* the error a failed control call returns
ControllerError == <<"controller error">>

(***************************************************************************)
(* The reconciler's operations as functions of the state they read.  Each  *)
(* takes the outcome of its control call (ok) as an input.                 *)
(***************************************************************************)
RECURSIVE buildPeerConfigs_firstErr(_, _, _, _)
\* mutant: the loop keeps the first validation error it meets
buildPeerConfigs_firstErr(peers, st, peerConfigs, lastErr) ==
    IF peers = <<>> THEN [status |-> st, peerConfigs |-> peerConfigs, lastErr |-> lastErr]
    ELSE LET peer == Head(peers)
             r == createPeerConfig(peer)
         IN  IF r.err # NoError
             THEN buildPeerConfigs_firstErr(Tail(peers), handlePeerError(st, peer, r.err),
                                   peerConfigs, IF lastErr = NoError THEN r.err ELSE lastErr)
             ELSE buildPeerConfigs_firstErr(Tail(peers),
                                   updatePeerState(st, peer.Name, "configuring", NoError),
                                   Append(peerConfigs, r.cfg), lastErr)

RECURSIVE buildPeerConfigs(_, _, _, _)
\* the loop of StartTunnel (src/wgmesh.go:447-456) over the peers left
buildPeerConfigs(peers, st, peerConfigs, lastErr) ==
    IF peers = <<>> THEN [status |-> st, peerConfigs |-> peerConfigs, lastErr |-> lastErr]
    ELSE LET peer == Head(peers)
             r == createPeerConfig(peer)
         IN  IF r.err # NoError
             THEN buildPeerConfigs(Tail(peers), handlePeerError(st, peer, r.err),
                                   peerConfigs, r.err)
             ELSE buildPeerConfigs(Tail(peers),
                                   updatePeerState(st, peer.Name, "configuring", NoError),
                                   Append(peerConfigs, r.cfg), lastErr)

\* mutant: a failed apply is returned to the caller and the tracker is not told
markAllError_returnOnly(peers, st, err) == st

RECURSIVE markAllError(_, _, _)
\* the loop of src/wgmesh.go:469-471
markAllError(peers, st, err) ==
    IF peers = <<>> THEN st
    ELSE markAllError(Tail(peers), updatePeerState(st, Head(peers).Name, "error", err), err)

\* StartTunnel (src/wgmesh.go:436-485): the status and device it leaves, the
\* error it returns, the request of its control call (<<>> when it makes none)
\* and whether it started a monitor goroutine
StartTunnel(cfg, st, dev, ok) ==
    IF ~ParseKeyOK(cfg.PrivateKey)
    THEN [status |-> st, device |-> dev, err |-> <<"invalid private key">>,
          request |-> <<>>, spawned |-> FALSE]
    ELSE LET b == buildPeerConfigs(cfg.Peers, st, <<>>, NoError)
             request == [PrivateKey |-> cfg.PrivateKey, ListenPort |-> cfg.ListenPort,
                         ReplacePeers |-> FALSE, Peers |-> b.peerConfigs]
         IN  IF ~ok
             THEN [status |-> markAllError(cfg.Peers, b.status, ControllerError),
                   device |-> dev,
                   err |-> <<"failed to configure WireGuard device: ">> \o ControllerError,
                   request |-> request, spawned |-> FALSE]
             ELSE [status |-> b.status, device |-> ConfigureDevice(dev, request),
                   err |-> b.lastErr, request |-> request, spawned |-> TRUE]

\* StopTunnel (src/wgmesh.go:570-591)
StopTunnel(dev, ok) ==
    IF ~ok THEN [device |-> dev, err |-> ControllerError]
    ELSE [device |-> ConfigureDevice(dev, [ReplacePeers |-> TRUE, Peers |-> <<>>]),
          err |-> NoError]

\* mutant: the control call of addPeer replaces the peer list of the device
addPeer_replacePeers(st, dev, peer, ok) ==
    LET r == createPeerConfig(peer)
    IN  IF r.err # NoError
        THEN [status |-> handlePeerError(st, peer, r.err), device |-> dev,
              err |-> r.err, calls |-> 0]
        ELSE IF ~ok
        THEN [status |-> handlePeerError(st, peer, ControllerError), device |-> dev,
              err |-> <<"failed to add peer ", peer.Name, ": ">> \o ControllerError,
              calls |-> 1]
        ELSE [status |-> updatePeerState(st, peer.Name, "configuring", NoError),
              device |-> ConfigureDevice(dev, [ReplacePeers |-> TRUE, Peers |-> <<r.cfg>>]),
              err |-> NoError, calls |-> 1]

\* addPeer (src/wgmesh.go:296-318); calls is the number of control calls made
addPeer(st, dev, peer, ok) ==
    LET r == createPeerConfig(peer)
    IN  IF r.err # NoError
        THEN [status |-> handlePeerError(st, peer, r.err), device |-> dev,
              err |-> r.err, calls |-> 0]
        ELSE IF ~ok
        THEN [status |-> handlePeerError(st, peer, ControllerError), device |-> dev,
              err |-> <<"failed to add peer ", peer.Name, ": ">> \o ControllerError,
              calls |-> 1]
        ELSE [status |-> updatePeerState(st, peer.Name, "configuring", NoError),
              device |-> ConfigureDevice(dev, [ReplacePeers |-> FALSE, Peers |-> <<r.cfg>>]),
              err |-> NoError, calls |-> 1]

\* removePeer (src/wgmesh.go:320-340)
removePeer(st, dev, peer, ok) ==
    LET r == StopTunnel(dev, ok)
    IN  [status |-> st, device |-> r.device, err |-> r.err, calls |-> 1]

\* updatePeer (src/wgmesh.go:342-350)
updatePeer(st, dev, peer, removeOK, addOK) ==
    LET r == removePeer(st, dev, peer, removeOK)
        a == addPeer(r.status, r.device, peer, addOK)
    IN  [status |-> a.status, device |-> a.device, err |-> a.err,
         calls |-> r.calls + a.calls, removeErr |-> r.err]

\* getPeerNameByKey (src/wgmesh.go:561-568); "" when no peer has the key
getPeerNameByKey(cfg, publicKey) ==
    IF \E i \in DOMAIN cfg.Peers : cfg.Peers[i].PublicKey = publicKey
    THEN cfg.Peers[CHOOSE i \in DOMAIN cfg.Peers :
                      /\ cfg.Peers[i].PublicKey = publicKey
                      /\ \A j \in DOMAIN cfg.Peers :
                            j < i => cfg.Peers[j].PublicKey # publicKey].Name
    ELSE ""

(***************************************************************************)
(* Health monitor: what one poll records for a device peer                 *)
(* (src/wgmesh.go:542-555).  A sample is what the device reports for the   *)
(* peer: byte counters and the age of the last handshake in minutes        *)
(* (NoHandshake when LastHandshakeTime is the zero time).                  *)
(***************************************************************************)
FreshnessMinutes == 3
NoHandshake == -1
HandshakeAges == {NoHandshake, 2, 3, 4}
TrafficSamples == {[ReceiveBytes |-> 1000, TransmitBytes |-> 2000]}
Samples == {[traffic |-> t, age |-> a] : t \in TrafficSamples, a \in HandshakeAges}

\* mutant: a handshake exactly FreshnessMinutes old still counts as fresh
recordPeer_inclusive(st, peerName, sample) ==
    LET old == PeerStatusOf(st.Peers, peerName)
        new == [old EXCEPT !.BytesRecv = sample.traffic.ReceiveBytes,
                           !.BytesSent = sample.traffic.TransmitBytes,
                           !.State = IF sample.age # NoHandshake /\ sample.age <= FreshnessMinutes
                                     THEN "up" ELSE "down"]
    IN  [st EXCEPT !.Peers = MapSet(st.Peers, peerName, new)]

recordPeer(st, peerName, sample) ==
    LET old == PeerStatusOf(st.Peers, peerName)
        new == [old EXCEPT !.BytesRecv = sample.traffic.ReceiveBytes,
                           !.BytesSent = sample.traffic.TransmitBytes,
                           !.State = IF sample.age # NoHandshake /\ sample.age < FreshnessMinutes
                                     THEN "up" ELSE "down"]
    IN  [st EXCEPT !.Peers = MapSet(st.Peers, peerName, new)]

(***************************************************************************)
(* State.                                                                  *)
(***************************************************************************)
VARIABLES
    Config,      \* w.Config
    status,      \* w.status: [Status, Peers]
    device,      \* the peers of the WireGuard device
    ctxDone,     \* w.ctx is cancelled
    wgCounter,   \* the counter of w.wg
    panicked,    \* the process died of a panic
    exited,      \* main exited (log.Fatal, cmd/wgmesh/wgmesh.go:44)
    client,      \* the caller of the exported methods
    watcher,     \* the file watcher goroutine and its handleConfigChange frame
    monitors,    \* the monitor goroutines, by the StartTunnel execution that started them
    events,      \* fsnotify Write events delivered and not yet received
    eventsSent,  \* fsnotify Write events delivered so far
    lastCycle,   \* history: how the latest handleConfigChange went
    lastCall,    \* history: the latest StartTunnel execution
    snap,        \* the MeshStatus values GetStatus returned
    env          \* the environment of the run

vars == <<Config, status, device, ctxDone, wgCounter, panicked, exited, client, watcher,
          monitors, events, eventsSent, lastCycle, lastCall, snap, env>>

MonitorIds == 1..MaxTunnelStarts

NoFrame == [newConfig |-> <<>>, added |-> {}, removed |-> {}, updated |-> {}]
\* fault: what went wrong before the diff ("backup": the backup write failed,
\* "load": the file could not be read or parsed); outcome: where the cycle is;
\* clean: no step of it returned an error; calls: the control calls it made;
\* removedOK: the names whose removePeer returned nil; synced: when the cycle
\* began the device held exactly the keys of the spec in memory; attempted:
\* the names addPeer, removePeer or updatePeer was called with; stepErr: the
\* error the latest of these calls returned
NoCycle == [fault |-> "none", outcome |-> "none", clean |-> TRUE, calls |-> 0, removedOK |-> {},
            synced |-> FALSE, attempted |-> {}, stepErr |-> NoError]
Faults == {"none", "backup", "load"}
\* a monitor goroutine: keys are the device peers of the current tick still to
\* be looked at; spec is history, the w.Config the device query of the
\* current tick read (NoSpec between ticks); query is history, "failed" when
\* the device query of the latest tick failed and "none" otherwise
NoSpec == <<>>
RunningMonitor == [pc |-> "select", keys |-> {}, spec |-> NoSpec, query |-> "none"]
\* arg: the arguments of an operation applied on its own
NoCall == [op |-> "none", cfg |-> <<>>, err |-> NoError, request |-> <<>>, applied |-> FALSE,
           before |-> EmptyDevice, arg |-> <<>>]

\* NewWgMesh (src/wgmesh.go:89-117), in the environment env
NewWgMesh ==
    /\ Config \in InitialFiles(env)
    /\ status = [Status |-> "", Peers |-> [n \in {} |-> ZeroPeerStatus]]
    /\ device \in InitialDevices(env)
    /\ ctxDone = FALSE
    /\ wgCounter = 0
    /\ panicked = FALSE
    /\ exited = FALSE
    /\ client = [pc |-> "open", tunnelStarts |-> 0]
    /\ watcher = [pc |-> "none", frame |-> NoFrame]
    /\ monitors = [i \in MonitorIds |-> [pc |-> "none", keys |-> {}, spec |-> NoSpec, query |-> "none"]]
    /\ events = 0
    /\ eventsSent = 0
    /\ lastCycle = NoCycle
    /\ lastCall = NoCall
    /\ snap = <<>>

Init == env \in Environments /\ NewWgMesh

(***************************************************************************)
(* The caller of the exported methods.                                     *)
(***************************************************************************)
\* the process runs: no goroutine panicked and main did not exit
Alive == ~panicked /\ ~exited

\* the StartTunnel executions of a run
StartLimit == IF env = "daemon" THEN 1 ELSE MaxTunnelStarts

\* sync.WaitGroup.Done: a counter that would go negative panics
Done ==
    IF wgCounter = 0
    THEN panicked' = TRUE /\ UNCHANGED wgCounter
    ELSE wgCounter' = wgCounter - 1 /\ UNCHANGED panicked

\* the effects of one StartTunnel execution r, made from device dev, on the
\* status, the device and the monitors (src/wgmesh.go:475-480)
RunStartTunnel(op, r, dev) ==
    /\ status' = r.status
    /\ device' = r.device
    /\ monitors' = IF r.spawned
                   THEN [monitors EXCEPT ![client.tunnelStarts + 1] = RunningMonitor]
                   ELSE monitors
    /\ client' = [client EXCEPT !.tunnelStarts = @ + 1]
    /\ lastCall' = [op |-> op, cfg |-> Config, err |-> r.err, request |-> r.request,
                    applied |-> r.spawned, before |-> dev, arg |-> <<>>]

\* Start (src/wgmesh.go:178-194)
Start ==
    /\ Alive /\ client.pc = "open" /\ watcher.pc = "none"
    /\ client.tunnelStarts < StartLimit
    /\ \E ok \in BOOLEAN :
          LET r == StartTunnel(Config, status, device, ok)
          IN  /\ RunStartTunnel("Start", r, device)
              /\ wgCounter' = wgCounter + (IF r.spawned THEN 1 ELSE 0)
                                         + (IF r.err = NoError THEN 1 ELSE 0)
              /\ watcher' = IF r.err = NoError THEN [watcher EXCEPT !.pc = "init"]
                            ELSE watcher
              /\ exited' = (env = "daemon" /\ r.err # NoError)
    /\ UNCHANGED <<env, Config, ctxDone, panicked, events, eventsSent, lastCycle, snap>>

\* a direct call of StartTunnel (src/wgmesh.go:436-485)
CallStartTunnel ==
    /\ Alive /\ client.pc = "open" /\ env = "library"
    /\ client.tunnelStarts < StartLimit
    /\ \E ok \in BOOLEAN :
          LET r == StartTunnel(Config, status, device, ok)
          IN  /\ RunStartTunnel("StartTunnel", r, device)
              /\ wgCounter' = wgCounter + (IF r.spawned THEN 1 ELSE 0)
    /\ UNCHANGED <<env, exited, Config, ctxDone, panicked, watcher, events, eventsSent, lastCycle, snap>>

\* RestartTunnel (src/wgmesh.go:593-608)
RestartTunnel ==
    /\ Alive /\ client.pc = "open" /\ env = "library"
    /\ client.tunnelStarts < StartLimit
    /\ \E stopOK \in BOOLEAN, ok \in BOOLEAN :
          LET s == StopTunnel(device, stopOK)
              r == StartTunnel(Config, status, s.device, ok)
          IN  IF s.err # NoError
              THEN /\ client' = [client EXCEPT !.tunnelStarts = @ + 1]
                   /\ lastCall' = [NoCall EXCEPT !.op = "RestartTunnel", !.cfg = Config,
                                                 !.err = s.err, !.before = device]
                   /\ UNCHANGED <<status, device, monitors, wgCounter>>
              ELSE /\ RunStartTunnel("RestartTunnel", r, s.device)
                   /\ wgCounter' = wgCounter + (IF r.spawned THEN 1 ELSE 0)
    /\ UNCHANGED <<env, exited, Config, ctxDone, panicked, watcher, events, eventsSent, lastCycle, snap>>

\* GetStatus (src/wgmesh.go:126-130): the returned struct copies the Status
\* field and shares the Peers map with w.status; PeersAtCall is history, the
\* content of that map when the call returned
GetStatus ==
    /\ Alive /\ client.pc = "open" /\ env = "reader"
    /\ Len(snap) < MaxSnapshots
    /\ snap' = Append(snap, [Status |-> status.Status, PeersAtCall |-> status.Peers])
    /\ UNCHANGED <<env, exited, Config, status, device, ctxDone, wgCounter, panicked, client, watcher,
                   monitors, events, eventsSent, lastCycle, lastCall>>

\* what the holder of the i-th returned MeshStatus reads from it now
SnapshotView(i) == [Status |-> snap[i].Status, Peers |-> status.Peers]

\* Close (src/wgmesh.go:120-124): w.cancel()
CloseCancel ==
    /\ Alive /\ client.pc = "open" /\ env = "library"
    /\ ctxDone' = TRUE
    /\ client' = [client EXCEPT !.pc = "waiting"]
    /\ UNCHANGED <<env, exited, Config, status, device, wgCounter, panicked, watcher, monitors, events,
                   eventsSent, lastCycle, lastCall, snap>>

\* Close: w.wg.Wait() returns, then w.Client.Close()
CloseReturn ==
    /\ Alive /\ client.pc = "waiting"
    /\ wgCounter = 0
    /\ client' = [client EXCEPT !.pc = "closed"]
    /\ UNCHANGED <<env, exited, Config, status, device, ctxDone, wgCounter, panicked, watcher, monitors,
                   events, eventsSent, lastCycle, lastCall, snap>>

(***************************************************************************)
(* The change notifier and the file watcher goroutine                      *)
(* (src/wgmesh.go:186-191, 196-229).                                       *)
(***************************************************************************)
WatcherRunning == watcher.pc \in {"select", "added", "removed", "updated", "swap"}

\* the fsnotify events of a run
EventLimit == IF env = "reloader" THEN MaxReloadEvents ELSE MaxEvents

\* the config file is written: fsnotify delivers a Write event
FileWritten ==
    /\ Alive /\ WatcherRunning
    /\ eventsSent < EventLimit
    /\ events' = events + 1
    /\ eventsSent' = eventsSent + 1
    /\ UNCHANGED <<env, exited, Config, status, device, ctxDone, wgCounter, panicked, client, watcher,
                   monitors, lastCycle, lastCall, snap>>

\* fsnotify.NewWatcher and watcher.Add; on failure startFileWatcher returns
\* and the goroutine ends with its deferred w.wg.Done()
WatcherInit ==
    /\ Alive /\ watcher.pc = "init"
    /\ \/ /\ watcher' = [watcher EXCEPT !.pc = "select"]
          /\ UNCHANGED <<wgCounter, panicked>>
       \/ /\ watcher' = [watcher EXCEPT !.pc = "exited"]
          /\ Done
    /\ UNCHANGED <<env, exited, Config, status, device, ctxDone, client, monitors, events, eventsSent,
                   lastCycle, lastCall, snap>>

\* case <-w.ctx.Done(): return nil, then the deferred w.wg.Done()
WatcherExit ==
    /\ Alive /\ watcher.pc = "select"
    /\ ctxDone
    /\ watcher' = [watcher EXCEPT !.pc = "exited"]
    /\ Done
    /\ UNCHANGED <<env, exited, Config, status, device, ctxDone, client, monitors, events, eventsSent,
                   lastCycle, lastCall, snap>>

\* an event that is not a Write, or a value on watcher.Errors: logged only
WatcherOtherEvent ==
    /\ Alive /\ watcher.pc = "select"
    /\ UNCHANGED vars

\* where handleConfigChange goes on with the frame f: the three loops in order
\* (src/wgmesh.go:249-274), then the assignment of line 277
NextPc(f) ==
    IF f.added # {} THEN "added"
    ELSE IF f.removed # {} THEN "removed"
    ELSE IF f.updated # {} THEN "updated"
    ELSE "swap"

\* the public keys a config declares
DeclaredKeys(cfg) == {cfg.Peers[i].PublicKey : i \in DOMAIN cfg.Peers}

\* mutant: every Write event starts handleConfigChange at once, in a goroutine
\* of its own
receivesEvents_goPerEvent(pc) == pc \in {"select", "added", "removed", "updated", "swap"}

\* the watcher goroutine receives from watcher.Events only in the select of
\* its loop (src/wgmesh.go:210-228); handleConfigChange is called in the loop
\* body and returns before the next receive
receivesEvents(pc) == pc = "select"

\* mutant: a failed backup write is logged and the cycle goes on
cycleAborts_loadOnly(fault) == fault = "load"

\* the early returns of handleConfigChange (src/wgmesh.go:233-244)
cycleAborts(fault) == fault # "none"

\* case event := <-watcher.Events with a Write: handleConfigChange up to the
\* diff (src/wgmesh.go:231-247).  The outcome of the backup write and the
\* content of the file are inputs.
HandleConfigChange ==
    /\ Alive /\ receivesEvents(watcher.pc)
    /\ events > 0
    /\ events' = events - 1
    /\ \E fault \in Faults, newConfig \in Files(env) :
          IF cycleAborts(fault)
          THEN /\ lastCycle' = [NoCycle EXCEPT !.fault = fault, !.outcome = "aborted"]
               /\ UNCHANGED watcher
          ELSE LET d == diffMesh(Config.Peers, newConfig.Peers)
                   f == [newConfig |-> newConfig, added |-> d.added,
                         removed |-> d.removed, updated |-> d.updated]
               IN  /\ watcher' = [pc |-> NextPc(f), frame |-> f]
                   /\ lastCycle' = [NoCycle EXCEPT
                                       !.fault = fault, !.outcome = "running",
                                       !.synced = (DOMAIN device = DeclaredKeys(Config))]
    /\ UNCHANGED <<env, exited, Config, status, device, ctxDone, wgCounter, panicked, client, monitors,
                   eventsSent, lastCall, snap>>

\* mutant: the first failed step ends handleConfigChange
afterStep_abortOnError(f, err) ==
    IF err # NoError THEN [f EXCEPT !.added = {}, !.removed = {}, !.updated = {}] ELSE f

\* what is left to do after a loop iteration that leaves the frame f and got
\* the error err: the error is logged and the loops go on
\* (src/wgmesh.go:252-255, 261-264, 270-273)
afterStep(f, err) == f

\* the bookkeeping of one loop iteration with result r
CycleStep(r, f) ==
    /\ status' = r.status
    /\ device' = r.device
    /\ watcher' = [pc |-> NextPc(f), frame |-> f]
    /\ UNCHANGED <<env, exited, Config, ctxDone, wgCounter, panicked, client, monitors, events,
                   eventsSent, lastCall, snap>>

\* one iteration of the loop over addedPeers (src/wgmesh.go:250-256)
AddedPeer ==
    /\ Alive /\ watcher.pc = "added"
    /\ \E peer \in watcher.frame.added, ok \in BOOLEAN :
          LET r == addPeer(status, device, peer, ok)
          IN  /\ CycleStep(r, afterStep([watcher.frame EXCEPT !.added = @ \ {peer}], r.err))
              /\ lastCycle' = [lastCycle EXCEPT !.clean = @ /\ r.err = NoError,
                                                !.calls = @ + r.calls,
                                                !.attempted = @ \cup {peer.Name},
                                                !.stepErr = r.err]

\* one iteration of the loop over removedPeers (src/wgmesh.go:259-265)
RemovedPeer ==
    /\ Alive /\ watcher.pc = "removed"
    /\ \E peer \in watcher.frame.removed, ok \in BOOLEAN :
          LET r == removePeer(status, device, peer, ok)
          IN  /\ CycleStep(r, afterStep([watcher.frame EXCEPT !.removed = @ \ {peer}], r.err))
              /\ lastCycle' = [lastCycle EXCEPT
                                  !.clean = @ /\ r.err = NoError,
                                  !.calls = @ + r.calls,
                                  !.attempted = @ \cup {peer.Name},
                                  !.stepErr = r.err,
                                  !.removedOK = IF r.err = NoError THEN @ \cup {peer.Name}
                                                ELSE @]

\* one iteration of the loop over updatedPeers (src/wgmesh.go:268-274)
UpdatedPeer ==
    /\ Alive /\ watcher.pc = "updated"
    /\ \E peer \in watcher.frame.updated, removeOK \in BOOLEAN, addOK \in BOOLEAN :
          LET r == updatePeer(status, device, peer, removeOK, addOK)
          IN  /\ CycleStep(r, afterStep([watcher.frame EXCEPT !.updated = @ \ {peer}], r.err))
              /\ lastCycle' = [lastCycle EXCEPT
                                  !.clean = @ /\ r.err = NoError /\ r.removeErr = NoError,
                                  !.calls = @ + r.calls,
                                  !.attempted = @ \cup {peer.Name},
                                  !.stepErr = r.err]

\* mutant: the spec in memory is replaced only when no step failed
swappedConfig_onlyIfClean(cfg, newConfig, clean) == IF clean THEN newConfig ELSE cfg

\* the spec in memory after the cycle that loaded newConfig
\* (src/wgmesh.go:276-277): the assignment is not conditional
swappedConfig(cfg, newConfig, clean) == newConfig

\* w.Config = newConfig (src/wgmesh.go:277) and back to the select
SwapConfig ==
    /\ Alive /\ watcher.pc = "swap"
    /\ Config' = swappedConfig(Config, watcher.frame.newConfig, lastCycle.clean)
    /\ watcher' = [pc |-> "select", frame |-> NoFrame]
    /\ lastCycle' = [lastCycle EXCEPT !.outcome = "done"]
    /\ UNCHANGED <<env, exited, status, device, ctxDone, wgCounter, panicked, client, monitors, events,
                   eventsSent, lastCall, snap>>

(***************************************************************************)
(* The monitor goroutines (src/wgmesh.go:477-480, 518-559).                *)
(***************************************************************************)
\* mutant: a failed device query ends monitorPeers
afterQuery_failureReturns(m, ok, keys, cfg) ==
    IF ~ok THEN [m EXCEPT !.pc = "returned", !.query = "failed"]
    ELSE IF keys = {} THEN [m EXCEPT !.query = "none"]
    ELSE [pc |-> "peers", keys |-> keys, spec |-> cfg, query |-> "none"]

\* the monitor m after the device query of a tick (src/wgmesh.go:529-536): a
\* failed query is logged and the loop continues with the next select, as
\* does a query that reports no peer
afterQuery(m, ok, keys, cfg) ==
    IF ~ok THEN [m EXCEPT !.query = "failed"]
    ELSE IF keys = {} THEN [m EXCEPT !.query = "none"]
    ELSE [pc |-> "peers", keys |-> keys, spec |-> cfg, query |-> "none"]

\* case <-ticker.C: the device query (lines 529-533); a failed query and a
\* device without peers leave the goroutine in the select
MonitorTick(i) ==
    /\ Alive /\ monitors[i].pc = "select"
    /\ \E ok \in BOOLEAN :
          monitors' = [monitors EXCEPT ![i] = afterQuery(@, ok, DOMAIN device, Config)]
    /\ UNCHANGED <<env, exited, Config, status, device, ctxDone, wgCounter, panicked, client, watcher,
                   events, eventsSent, lastCycle, lastCall, snap>>

\* one iteration of the loop over device.Peers (lines 536-556)
MonitorPeer(i) ==
    /\ Alive /\ monitors[i].pc = "peers"
    /\ \E key \in monitors[i].keys, sample \in Samples :
          LET peerName == getPeerNameByKey(Config, key)
              left == monitors[i].keys \ {key}
          IN  /\ status' = IF peerName = "" THEN status
                           ELSE recordPeer(status, peerName, sample)
              /\ monitors' = [monitors EXCEPT ![i] =
                                [pc |-> IF left = {} THEN "select" ELSE "peers",
                                 keys |-> left,
                                 spec |-> IF left = {} THEN NoSpec ELSE @.spec,
                                 query |-> "none"]]
    /\ UNCHANGED <<env, exited, Config, device, ctxDone, wgCounter, panicked, client, watcher, events,
                   eventsSent, lastCycle, lastCall, snap>>

\* case <-w.ctx.Done(): return, then monitorPeers' deferred w.wg.Done() (line 519)
MonitorReturn(i) ==
    /\ Alive /\ monitors[i].pc = "select"
    /\ ctxDone
    /\ monitors' = [monitors EXCEPT ![i].pc = "returned"]
    /\ Done
    /\ UNCHANGED <<env, exited, Config, status, device, ctxDone, client, watcher, events, eventsSent,
                   lastCycle, lastCall, snap>>

\* the goroutine's own deferred w.wg.Done() (line 478)
MonitorExit(i) ==
    /\ Alive /\ monitors[i].pc = "returned"
    /\ monitors' = [monitors EXCEPT ![i].pc = "exited"]
    /\ Done
    /\ UNCHANGED <<env, exited, Config, status, device, ctxDone, client, watcher, events, eventsSent,
                   lastCycle, lastCall, snap>>

Next ==
    \/ Start
    \/ CallStartTunnel
    \/ RestartTunnel
    \/ GetStatus
    \/ CloseCancel
    \/ CloseReturn
    \/ FileWritten
    \/ WatcherInit
    \/ WatcherExit
    \/ WatcherOtherEvent
    \/ HandleConfigChange
    \/ AddedPeer
    \/ RemovedPeer
    \/ UpdatedPeer
    \/ SwapConfig
    \/ \E i \in MonitorIds : MonitorTick(i)
    \/ \E i \in MonitorIds : MonitorPeer(i)
    \/ \E i \in MonitorIds : MonitorReturn(i)
    \/ \E i \in MonitorIds : MonitorExit(i)

Spec == Init /\ [][Next]_vars

(***************************************************************************)
(* The hot-reload driver on its own: the mesh is started once, never       *)
(* closed, and the config file is rewritten up to MaxReloadEvents times.   *)
(***************************************************************************)
InitReload == env = "reloader" /\ NewWgMesh

NextReload ==
    \/ Start
    \/ FileWritten
    \/ WatcherInit
    \/ WatcherOtherEvent
    \/ HandleConfigChange
    \/ AddedPeer
    \/ RemovedPeer
    \/ UpdatedPeer
    \/ SwapConfig
    \/ \E i \in MonitorIds : MonitorTick(i)
    \/ \E i \in MonitorIds : MonitorPeer(i)

SpecReload == InitReload /\ [][NextReload]_vars

(***************************************************************************)
(* The status tracker on its own: updatePeerState and the monitor's write  *)
(* applied in any order with any arguments, from the status of a new mesh. *)
(* lastCall.op names the operation applied last.                           *)
(***************************************************************************)
PeerStates == {"configuring", PeerStateUp, PeerStateDown, PeerStateError}

InitTracker == Init /\ env = "reader"

TrackerSet ==
    /\ \E name \in Names, state \in PeerStates, err \in {NoError, ControllerError} :
          status' = updatePeerState(status, name, state, err)
    /\ lastCall' = [NoCall EXCEPT !.op = "updatePeerState"]
    /\ UNCHANGED <<Config, device, ctxDone, wgCounter, panicked, exited, client, watcher,
                   monitors, events, eventsSent, lastCycle, snap, env>>

TrackerRecord ==
    /\ \E name \in Names, sample \in Samples :
          /\ status' = recordPeer(status, name, sample)
          /\ lastCall' = [NoCall EXCEPT !.op = "recordPeer",
                                        !.arg = [name |-> name, sample |-> sample]]
    /\ UNCHANGED <<Config, device, ctxDone, wgCounter, panicked, exited, client, watcher,
                   monitors, events, eventsSent, lastCycle, snap, env>>

NextTracker == TrackerSet \/ TrackerRecord

SpecTracker == InitTracker /\ [][NextTracker]_vars

(***************************************************************************)
(* createPeerConfig on its own, applied to any declaration of a peer: key  *)
(* well formed or not, endpoint absent, resolvable or not, NAT or not.     *)
(* lastCall holds the declaration (arg), the error and the peer config     *)
(* returned (request).                                                     *)
(***************************************************************************)
Declarations ==
    {[p EXCEPT !.Endpoint = e, !.Port = port, !.NAT = nat] :
        p \in UNION {PeerVariants(n) : n \in Names},
        e \in {"", "198.51.100.7", "no-such-host.invalid"},
        port \in {0, 51820},
        nat \in BOOLEAN}

CallCreatePeerConfig ==
    /\ \E peer \in Declarations :
          LET r == createPeerConfig(peer)
          IN  lastCall' = [NoCall EXCEPT !.op = "createPeerConfig", !.arg = peer,
                                        !.err = r.err, !.request = r.cfg]
    /\ UNCHANGED <<Config, status, device, ctxDone, wgCounter, panicked, exited, client,
                   watcher, monitors, events, eventsSent, lastCycle, snap, env>>

NextPeerConfig == CallCreatePeerConfig

SpecPeerConfig == InitTracker /\ [][NextPeerConfig]_vars

(***************************************************************************)
(* Vocabulary of the claims.                                               *)
(***************************************************************************)
\* a declared peer passes validation: key, endpoint and allowed ranges parse
PassesValidation(p) ==
    /\ p.PublicKey \in ValidKeys
    /\ p.Endpoint = "" \/ p.Endpoint \in ResolvableHosts
    /\ \A i \in DOMAIN p.AllowedIPs : p.AllowedIPs[i] \in ValidCIDRs

PeersOf(cfg) == {cfg.Peers[i] : i \in DOMAIN cfg.Peers}
NamesOf(cfg) == {p.Name : p \in PeersOf(cfg)}
PassingPeers(cfg) == {p \in PeersOf(cfg) : PassesValidation(p)}
FailingPeers(cfg) == PeersOf(cfg) \ PassingPeers(cfg)

\* the aggregate rule: Up if all peers are Up, Down if all are Down or there
\* is no peer, Partial otherwise
AggregateRule(peers) ==
    IF DOMAIN peers = {} THEN MeshStateDown
    ELSE IF \A n \in DOMAIN peers : peers[n].State = PeerStateUp THEN MeshStateUp
    ELSE IF \A n \in DOMAIN peers : peers[n].State = PeerStateDown THEN MeshStateDown
    ELSE MeshStatePartial

\* a step in which StartTunnel ran to its device-level apply, which succeeded
AppliedTunnelStep ==
    /\ client'.tunnelStarts = client.tunnelStarts + 1
    /\ lastCall'.applied

\* a loop that was started and has not returned
WatcherLoopRunning == watcher.pc \in {"init", "select", "added", "removed", "updated", "swap"}
MonitorLoopRunning(i) == monitors[i].pc \in {"select", "peers"}

(***************************************************************************)
(* Claims.                                                                 *)
(***************************************************************************)
\* C1: a hot-reload cycle in which every peer of the new spec passes
\* validation and every control call succeeds ends with the device holding
\* exactly the peers the new spec declares (here: even when the device held
\* exactly the peers of the old spec as the cycle began).
C1_ReloadConverges ==
    [][(/\ SwapConfig
        /\ lastCycle.clean
        /\ lastCycle.synced
        /\ FailingPeers(watcher.frame.newConfig) = {})
       => DOMAIN device' = DeclaredKeys(Config')]_vars

\* C2: when StartTunnel's device-level apply succeeds for a peer list in
\* which some peers fail validation, the apply request holds exactly the
\* peers that passed, every failing peer is in state Error when the call
\* returns, and the call returns an error.
C2_ValidationIsolation ==
    [][(AppliedTunnelStep /\ FailingPeers(lastCall'.cfg) # {})
       => /\ {lastCall'.request.Peers[i].PublicKey : i \in DOMAIN lastCall'.request.Peers}
               = {p.PublicKey : p \in PassingPeers(lastCall'.cfg)}
          /\ Len(lastCall'.request.Peers) = Cardinality(PassingPeers(lastCall'.cfg))
          /\ \A p \in FailingPeers(lastCall'.cfg) :
                /\ p.Name \in DOMAIN status'.Peers
                /\ status'.Peers[p.Name].State = PeerStateError
          /\ lastCall'.err # NoError]_vars

\* C2 witness: a StartTunnel whose apply succeeded, for a list with a peer
\* that failed validation and a peer that passed.
C2_Witness ==
    /\ lastCall.op \in {"Start", "StartTunnel", "RestartTunnel"}
    /\ lastCall.applied
    /\ FailingPeers(lastCall.cfg) # {}
    /\ PassingPeers(lastCall.cfg) # {}
    /\ lastCall.err # NoError

\* C3: every step that changes a PeerStatus leaves the mesh state equal to
\* the aggregate rule applied to the peer map.
C3_AggregateNeverStale ==
    [][status'.Peers # status.Peers => status'.Status = AggregateRule(status'.Peers)]_vars

\* C4: after updatePeerState, for a non-empty peer map, the mesh state is Up
\* iff every entry is Up, Down iff every entry is Down, Partial otherwise.
C4_AggregateAfterSet ==
    (lastCall.op = "updatePeerState" /\ DOMAIN status.Peers # {}) =>
        LET allUp == \A n \in DOMAIN status.Peers : status.Peers[n].State = PeerStateUp
            allDown == \A n \in DOMAIN status.Peers : status.Peers[n].State = PeerStateDown
        IN  /\ status.Status = MeshStateUp <=> allUp
            /\ status.Status = MeshStateDown <=> allDown
            /\ status.Status = MeshStatePartial <=> (~allUp /\ ~allDown)

\* C4 witness: updatePeerState has just made the last of two peers Up, and
\* the mesh is Up.
C4_Witness ==
    /\ lastCall.op = "updatePeerState"
    /\ Cardinality(DOMAIN status.Peers) >= 2
    /\ \A n \in DOMAIN status.Peers : status.Peers[n].State = PeerStateUp
    /\ status.Status = MeshStateUp

\* C5: a MeshStatus returned by GetStatus with an empty peer map has state
\* Down.
C5_EmptyMapIsDown ==
    \A i \in DOMAIN snap :
        DOMAIN snap[i].PeersAtCall = {} => snap[i].Status = MeshStateDown

\* C6: after a completed hot-reload cycle, a peer whose removal succeeded in
\* that cycle has no entry in MeshStatus.peers, and when every step of the
\* cycle succeeded the keys of MeshStatus.peers are among the peer names of
\* the spec now in memory.
C6_StatusKeysWithinSpec ==
    lastCycle.outcome = "done" =>
        /\ \A n \in lastCycle.removedOK : n \notin DOMAIN status.Peers
        /\ lastCycle.clean => DOMAIN status.Peers \subseteq NamesOf(Config)

\* C7: a cycle whose backup write or config load fails aborts: the spec in
\* memory, the status and the device are as before, the cycle makes no
\* control call and the watcher is back in its select.
C7_FailedCycleAborts ==
    [][(events' = events - 1 /\ lastCycle'.fault # "none")
       => /\ Config' = Config
          /\ status' = status
          /\ device' = device
          /\ lastCycle'.calls = 0
          /\ lastCycle'.outcome = "aborted"
          /\ watcher' = watcher /\ watcher.pc = "select"]_vars

\* C7 witness: a cycle ended by a failed backup write, after the mesh had
\* applied a non-empty spec.
C7_Witness ==
    /\ lastCycle.fault = "backup"
    /\ lastCycle.outcome = "aborted"
    /\ Config.Peers # <<>>
    /\ watcher.pc = "select"

\* C8: a MeshStatus returned by GetStatus keeps the peers and the state it
\* had when the call returned, whatever is written to the tracker later.
C8_SnapshotIsCopy ==
    \A i \in DOMAIN snap :
        SnapshotView(i) = [Status |-> snap[i].Status, Peers |-> snap[i].PeersAtCall]

\* C9: when Close has returned, the watcher loop and every monitor loop the
\* mesh started have returned.
C9_CloseWaitsForAll ==
    client.pc = "closed" =>
        (~WatcherLoopRunning /\ \A i \in MonitorIds : ~MonitorLoopRunning(i))

\* C10: once the context is cancelled, the watcher starts no
\* handleConfigChange and no monitor polls the device.
C10_CancelTakesPriority ==
    [][ctxDone => ~(HandleConfigChange \/ \E i \in MonitorIds : MonitorTick(i))]_vars

\* C11: at most one hot-reload cycle is in flight: a Write event is taken
\* from the channel only while the watcher waits in its select and no cycle
\* is running, so an event that arrives during a cycle waits for its end.
C11_OneCycleAtATime ==
    [][events' = events - 1
       => /\ watcher.pc = "select"
          /\ lastCycle.outcome # "running"
          /\ watcher.frame = NoFrame]_vars

\* C11 witness: a Write event is pending while a cycle is in flight
C11_Witness ==
    /\ events > 0
    /\ watcher.pc \in {"added", "removed", "updated", "swap"}
    /\ lastCycle.outcome = "running"

\* a step in which handleConfigChange got past backup and load and computed
\* its diff
DiffStep == events' = events - 1 /\ lastCycle'.outcome = "running"

\* the peer lists with the same declarations as the list of cfg, in any order
Reorderings(cfg) == {c.Peers : c \in {d \in Configs : PeersOf(d) = PeersOf(cfg)}}

\* C12: for the active peer list old and the loaded list new (unique names),
\* diffMesh yields added = the declarations of new whose name old lacks,
\* removed = the declarations of old whose name new lacks, updated = the
\* declarations of new whose name old declares differently; the names of
\* the three sets are pairwise disjoint and the sets are the same for every
\* reordering of old and of new.
C12_DiffIsSetDifference ==
    [][DiffStep =>
        LET old == Config
            f == watcher'.frame
            new == f.newConfig
            names(S) == {p.Name : p \in S}
        IN  /\ f.added = {p \in PeersOf(new) : p.Name \notin NamesOf(old)}
            /\ f.removed = {p \in PeersOf(old) : p.Name \notin NamesOf(new)}
            /\ f.updated = {p \in PeersOf(new) :
                               \E q \in PeersOf(old) : q.Name = p.Name /\ q # p}
            /\ names(f.added) \cap names(f.removed) = {}
            /\ names(f.added) \cap names(f.updated) = {}
            /\ names(f.removed) \cap names(f.updated) = {}
            /\ \A o \in Reorderings(old), n \in Reorderings(new) :
                  diffMesh(o, n) = [added |-> f.added, removed |-> f.removed,
                                    updated |-> f.updated]]_vars

\* C12 witness: a diff of two-peer lists in different orders, just computed,
\* with an updated peer whose key is unchanged
C12_Witness ==
    /\ lastCycle.outcome = "running" /\ lastCycle.calls = 0
    /\ Len(Config.Peers) = 2 /\ Len(watcher.frame.newConfig.Peers) = 2
    /\ Config.Peers[1].Name = watcher.frame.newConfig.Peers[2].Name
    /\ \E p \in watcher.frame.updated, q \in PeersOf(Config) :
          p.Name = q.Name /\ p.PublicKey = q.PublicKey /\ p # q

\* the step that ends a hot-reload cycle
CycleEnd == watcher.pc = "swap" /\ watcher'.pc = "select"

\* C13: the diff of a peer list with itself is three empty sets, and a cycle
\* that loads a config equal to the active one goes from its diff straight
\* to its end: it makes no control call and leaves the device and every
\* PeerStatus as they were.
C13_NoOpReload ==
    [][/\ (DiffStep /\ watcher'.frame.newConfig = Config)
            => /\ watcher'.frame.added = {}
               /\ watcher'.frame.removed = {}
               /\ watcher'.frame.updated = {}
               /\ watcher'.pc = "swap"
               /\ status' = status /\ device' = device
               /\ \A c \in Configs :
                     diffMesh(c.Peers, c.Peers) = [added |-> {}, removed |-> {}, updated |-> {}]
       /\ (CycleEnd /\ watcher.frame.newConfig = Config)
            => /\ lastCycle'.calls = 0
               /\ status' = status /\ device' = device
               /\ Config' = Config]_vars

\* C13 witness: a cycle that loaded a config equal to the active one, which
\* declares a peer, has computed its diff and is about to end
C13_Witness ==
    /\ watcher.pc = "swap" /\ lastCycle.outcome = "running"
    /\ watcher.frame.newConfig = Config
    /\ Config.Peers # <<>>
    /\ DOMAIN status.Peers = NamesOf(Config)

\* C14: when the StartTunnel of Start applied the device and only reported
\* peers that failed validation, the process goes on with a monitor goroutine
\* and the file watcher goroutine started.
C14_DegradedStartKeepsWatcher ==
    (/\ lastCall.op = "Start"
     /\ lastCall.applied
     /\ FailingPeers(lastCall.cfg) # {})
    => /\ ~exited
       /\ \E i \in MonitorIds : monitors[i].pc # "none"
       /\ watcher.pc # "none"

\* C15: a StartTunnel whose device-level apply succeeded leaves on the
\* device exactly the peers of the spec that passed validation; a peer the
\* device held before the call and the spec does not declare is gone.
C15_ApplyReplacesAll ==
    [][AppliedTunnelStep
       => DOMAIN device' = {p.PublicKey : p \in PassingPeers(lastCall'.cfg)}]_vars

\* a step in which StartTunnel ran to its device-level apply, which failed
FailedApplyStep ==
    /\ client'.tunnelStarts = client.tunnelStarts + 1
    /\ lastCall'.request # <<>>
    /\ ~lastCall'.applied

\* C16: when the device-level apply of StartTunnel fails, every peer that
\* passed validation (and so was marked configuring) is in state Error with
\* the controller's error as its message, and StartTunnel returns an error.
C16_FailedApplyMarksError ==
    [][FailedApplyStep
       => /\ \A p \in PassingPeers(lastCall'.cfg) :
                /\ p.Name \in DOMAIN status'.Peers
                /\ status'.Peers[p.Name].State = PeerStateError
                /\ status'.Peers[p.Name].Error = ControllerError
          /\ lastCall'.err # NoError]_vars

\* C16 witness: a StartTunnel whose apply failed, for a spec with a peer that
\* passed validation
C16_Witness ==
    /\ lastCall.op \in {"Start", "StartTunnel", "RestartTunnel"}
    /\ lastCall.request # <<>>
    /\ ~lastCall.applied
    /\ PassingPeers(lastCall.cfg) # {}
    /\ \A p \in PassingPeers(lastCall.cfg) : status.Peers[p.Name].State = PeerStateError

\* the positions of the peers of cfg that fail validation
FailingIndexes(cfg) == {i \in DOMAIN cfg.Peers : ~PassesValidation(cfg.Peers[i])}
\* the validation error of the peer at position i of cfg
ValidationError(cfg, i) == createPeerConfig(cfg.Peers[i]).err

\* C17 as stated: when peers fail validation and the device-level apply
\* succeeds, StartTunnel returns the validation error of the first failing
\* peer in spec order.
C17_ReturnsFirstError ==
    [][(AppliedTunnelStep /\ FailingIndexes(lastCall'.cfg) # {})
       => LET first == CHOOSE i \in FailingIndexes(lastCall'.cfg) :
                          \A j \in FailingIndexes(lastCall'.cfg) : i <= j
          IN  lastCall'.err = ValidationError(lastCall'.cfg, first)]_vars

\* C17 amended: when peers fail validation and the device-level apply
\* succeeds, StartTunnel returns the validation error of the last failing
\* peer in spec order.
C17_ReturnsLastError ==
    [][(AppliedTunnelStep /\ FailingIndexes(lastCall'.cfg) # {})
       => LET last == CHOOSE i \in FailingIndexes(lastCall'.cfg) :
                         \A j \in FailingIndexes(lastCall'.cfg) : j <= i
          IN  lastCall'.err = ValidationError(lastCall'.cfg, last)]_vars

\* C17 witness: a StartTunnel whose apply succeeded for a spec in which two
\* peers fail validation with different errors
C17_Witness ==
    /\ lastCall.op \in {"Start", "StartTunnel", "RestartTunnel"}
    /\ lastCall.applied
    /\ \E i, j \in FailingIndexes(lastCall.cfg) :
          /\ i < j
          /\ ValidationError(lastCall.cfg, i) # ValidationError(lastCall.cfg, j)
          /\ lastCall.err = ValidationError(lastCall.cfg, j)

\* a loop iteration of handleConfigChange that called addPeer for a peer of
\* the added list
AddStep == watcher.pc = "added" /\ watcher'.frame.added # watcher.frame.added

\* the names of the peers in the three lists of the diff of a cycle
DiffNames(oldCfg, newCfg) ==
    LET d == diffMesh(oldCfg.Peers, newCfg.Peers)
    IN  {p.Name : p \in d.added \cup d.removed \cup d.updated}

\* C18: an addPeer of a hot-reload cycle that fails puts that peer in state
\* Error and leaves every other PeerStatus as it was, and the cycle goes on:
\* only the peer just attempted leaves the lists, and when the cycle ends
\* addPeer, removePeer or updatePeer was called for every peer of the diff.
C18_BatchContinues ==
    [][/\ (AddStep /\ lastCycle'.stepErr # NoError)
            => \E p \in watcher.frame.added :
                  /\ watcher'.frame = [watcher.frame EXCEPT !.added = @ \ {p}]
                  /\ DOMAIN status'.Peers = DOMAIN status.Peers \cup {p.Name}
                  /\ status'.Peers[p.Name].State = PeerStateError
                  /\ \A n \in DOMAIN status.Peers \ {p.Name} :
                        status'.Peers[n] = status.Peers[n]
       /\ CycleEnd
            => lastCycle.attempted = DiffNames(Config, watcher.frame.newConfig)]_vars

\* C18 witness: the addPeer of the first of two added peers has failed, that
\* peer is in state Error and the loop is about to call addPeer for the other
C18_Witness ==
    /\ lastCycle.outcome = "running"
    /\ watcher.pc = "added"
    /\ Cardinality(lastCycle.attempted) = 1
    /\ lastCycle.stepErr # NoError
    /\ \A n \in lastCycle.attempted : status.Peers[n].State = PeerStateError
    /\ \E p \in watcher.frame.added : p.Name \notin lastCycle.attempted

\* C19: a hot-reload cycle that got past backup and load goes back to the
\* select only through its last step, and that step leaves the loaded
\* config as the spec in memory, whether or not steps of the cycle failed.
C19_SpecAlwaysSwapped ==
    [][(lastCycle.outcome = "running" /\ watcher'.pc = "select")
       => /\ lastCycle'.outcome = "done"
          /\ Config' = watcher.frame.newConfig]_vars

\* C19 witness: a cycle in which a step failed has ended and the spec in
\* memory, which differs from the one before, declares a peer in state Error
C19_Witness ==
    /\ lastCycle.outcome = "done"
    /\ ~lastCycle.clean
    /\ lastCycle.attempted # {}
    /\ \E p \in PeersOf(Config) :
          /\ p.Name \in lastCycle.attempted
          /\ p.Name \in DOMAIN status.Peers
          /\ status.Peers[p.Name].State = PeerStateError

\* C20: an addPeer of a hot-reload cycle that succeeds makes one control
\* call, after which the device holds the peer with its allowed ranges and
\* every other peer of the device as before, and changes the PeerStatus of
\* no other peer.
C20_AddPeerFrame ==
    [][(AddStep /\ lastCycle'.stepErr = NoError)
       => \E p \in watcher.frame.added :
             /\ watcher'.frame.added = watcher.frame.added \ {p}
             /\ lastCycle'.calls = lastCycle.calls + 1
             /\ DOMAIN device' = DOMAIN device \cup {p.PublicKey}
             /\ device'[p.PublicKey] = p.AllowedIPs
             /\ \A k \in DOMAIN device \ {p.PublicKey} : device'[k] = device[k]
             /\ DOMAIN status'.Peers = DOMAIN status.Peers \cup {p.Name}
             /\ \A n \in DOMAIN status.Peers \ {p.Name} :
                   status'.Peers[n] = status.Peers[n]]_vars

\* C20 witness: the first call of a cycle was an addPeer that succeeded on a
\* device that held another peer, which it still holds
C20_Witness ==
    /\ lastCycle.outcome = "running"
    /\ lastCycle.calls = 1
    /\ lastCycle.stepErr = NoError
    /\ \E n \in lastCycle.attempted :
          /\ lastCycle.attempted = {n}
          /\ n \notin NamesOf(Config)
          /\ status.Peers[n].State = "configuring"
          /\ KeyOf(n) \in DOMAIN device
    /\ \E p \in PeersOf(Config) : p.PublicKey \in DOMAIN device

\* a step in which monitor i looks at one device peer of its current tick
LookupStep(i) == monitors[i].pc = "peers" /\ monitors'[i].keys # monitors[i].keys

\* C21: every lookup of a monitor tick leaves the status that a lookup in the
\* spec read by the device query of that tick leaves: the peer found in that
\* spec for the key is recorded, or nothing when that spec has no such peer.
C21_TickUsesOneSpec ==
    [][\A i \in MonitorIds :
         LookupStep(i)
         => \E key \in monitors[i].keys \ monitors'[i].keys, sample \in Samples :
               LET peerName == getPeerNameByKey(monitors[i].spec, key)
               IN  status' = IF peerName = "" THEN status
                             ELSE recordPeer(status, peerName, sample)]_vars

\* a step in which the device query of a tick of monitor i fails
FailedQueryStep(i) ==
    /\ monitors[i].pc = "select"
    /\ monitors[i].query # "failed"
    /\ monitors'[i].query = "failed"

\* C22: a tick whose device query fails changes no PeerStatus and leaves the
\* monitor in its loop, waiting in the select for the next tick; a monitor
\* whose latest query failed is out of that select only once cancellation
\* was signalled.
C22_FailedQueryNotFatal ==
    [][\A i \in MonitorIds :
         /\ FailedQueryStep(i)
              => /\ status' = status
                 /\ monitors'[i].pc = "select"
         /\ (monitors[i].query = "failed" /\ monitors[i].pc = "select"
              /\ monitors'[i].pc \notin {"select", "peers"})
              => ctxDone]_vars

\* C22 witness: the latest device query of a running monitor failed while
\* the status holds a peer and cancellation is not signalled
C22_Witness ==
    /\ ~ctxDone
    /\ DOMAIN status.Peers # {}
    /\ DOMAIN device # {}
    /\ \E i \in MonitorIds : monitors[i].query = "failed" /\ monitors[i].pc = "select"

\* C23: after the monitor recorded a sample for a peer, the peer is Up when
\* the sample has a handshake less than FreshnessMinutes old and Down
\* otherwise (a peer without handshake included), and its byte counters are
\* those of the sample.
C23_FreshnessAndBytes ==
    lastCall.op = "recordPeer"
    => LET n == lastCall.arg.name
           smp == lastCall.arg.sample
       IN  /\ n \in DOMAIN status.Peers
           /\ status.Peers[n].State = IF smp.age \in 0..(FreshnessMinutes - 1)
                                      THEN PeerStateUp ELSE PeerStateDown
           /\ status.Peers[n].BytesRecv = smp.traffic.ReceiveBytes
           /\ status.Peers[n].BytesSent = smp.traffic.TransmitBytes

\* C23 witness: a sample whose handshake is exactly FreshnessMinutes old was
\* recorded for a peer, which is Down with the sample's byte counters
C23_Witness ==
    /\ lastCall.op = "recordPeer"
    /\ lastCall.arg.sample.age = FreshnessMinutes
    /\ status.Peers[lastCall.arg.name].State = PeerStateDown
    /\ status.Peers[lastCall.arg.name].BytesRecv > 0
    /\ status.Peers[lastCall.arg.name].BytesSent > 0

\* C24: the peer config built for a declaration that passes validation has
\* a persistent-keepalive interval of 25 seconds when the peer is NAT
\* assisted, and none when it is not (a declaration has no keepalive value
\* of its own).
C24_KeepaliveForNat ==
    (lastCall.op = "createPeerConfig" /\ lastCall.err = NoError)
    => lastCall.request.PersistentKeepaliveInterval =
          IF lastCall.arg.NAT THEN 25 ELSE NoKeepalive

\* C25: the wait group's counter never goes negative: no Done call finds the
\* counter at zero, so no goroutine panics in Done and the wait in Close is
\* not released by a Done that had no Add.
C25_DoneWithinAdd == ~panicked

\* C26: at most one monitorPeers loop is running at any time, whatever the
\* sequence of Start, StartTunnel and RestartTunnel calls.
C26_SingleMonitor == Cardinality({i \in MonitorIds : MonitorLoopRunning(i)}) <= 1

\* C27: a peer status whose state is up, down or configuring has an empty
\* error: the message of an earlier failure does not survive a transition
\* of the peer out of the error state.
C27_ErrorOnlyInErrorState ==
    \A name \in DOMAIN status.Peers :
        status.Peers[name].State \in {PeerStateUp, PeerStateDown, "configuring"}
        => status.Peers[name].Error = NoError

====
